---- MODULE Spec2Model ----
(***************************************************************************)
(* LinkMan: a terminal pager for manual pages with clickable references.   *)
(*                                                                         *)
(* The model covers the process started by main() (src/src/main.rs), its   *)
(* event loop in both forms the repository holds (the function run of      *)
(* main.rs with the globals of program_mode.rs, and the App struct of      *)
(* app.rs), the link-jump protocol (fork, exec of man with this program as *)
(* its pager, wait), the MANWIDTH negotiation, the word locator and the    *)
(* reference parser.  The terminal (raw mode, alternate screen, mouse      *)
(* capture, cursor) is one object shared by every process of a jump chain. *)
(***************************************************************************)
EXTENDS Integers, Sequences, FiniteSets, TLC

VARIABLES
    procs,      \* process slot -> process state; slot p+1 holds the jump child of slot p
    term,       \* the shared terminal: [raw, alt, capture, cursor]
    size,       \* the terminal's size: [rows, cols]
    loop_impl,  \* which event loop the binary was built with: "run" or "App"
    probe       \* the function examined on its own (none while the pager runs): its
                \* inputs, its outputs and the state it keeps between calls

vars == <<procs, term, size, loop_impl, probe>>

(***************************************************************************)
(* Bounds of the model.                                                    *)
(***************************************************************************)
MaxProcs == 2        \* process slots (the fork of the last slot fails: process limit)
MaxQuery == 1        \* longest search query typed
MaxToggles == 5      \* calls of toggle in a row, when toggle is examined on its own
MaxToken == 3        \* longest token built from TokenChars for the parser
MaxLocRow == 3       \* largest row given to the word locator on its own
MaxLocCol == 11      \* largest column given to the word locator on its own
MaxLen == 60         \* longest short page (in lines) when the line count is examined
MaxLines == 9        \* largest line count when G is examined on its own
MaxHeight == 9       \* largest viewport height when G or a click is examined on its own
MaxLocScroll == 1    \* largest scroll offset given to the word locator on its own

(***************************************************************************)
(* Program constants.                                                      *)
(***************************************************************************)
U16 == 65536                 \* scroll, num_lines and height are u16
BorderRows == 2              \* the "+ 2" of the clamp and of G
InputRows == 3               \* the "- 3" of the click guard of App
DefaultCols == 80            \* unwrap_or(80) of set_man_width_variable
WidthMargin == 2             \* saturating_sub(2) of set_man_width_variable
PanicExitCode == 101         \* exit status of a Rust panic that unwinds out of main
ErrExitCode == 1             \* exit status of main returning Err
ManNotFoundCode == 16        \* man: page not found
ManChildFailCode == 3        \* man: the pager returned a non-zero status

Procs == 1..MaxProcs
\* the terminal sizes the environment offers: a window of 4 rows and 12 columns,
\* and one of 2 rows and 3 columns
Sizes == {[rows |-> 4, cols |-> 12], [rows |-> 2, cols |-> 3]}
Digits == {"0", "1", "2", "3", "4", "5", "6", "7", "8", "9"}
QueryKeys == {"q"}           \* character keys typed while composing a search

\* MANWIDTH as the first process finds it: unset, not a number, a number, too big for u16
InitWidths == {<<>>, <<"x">>, <<"4", "0">>, <<"7", "0", "0", "0", "0">>}

\* The formatted page on stdin: an escape sequence, "a(1) b" and "c" on two lines.
GoodContent == <<"ESC", "a", "(", "1", ")", " ", "b", "\n", "c", "\n">>
\* A page without any whitespace: get_man_string fails on it.
BadContent == <<"x">>
Contents == {GoodContent, BadContent}

(***************************************************************************)
(* Arithmetic of u16.                                                      *)
(***************************************************************************)
SatSub(a, b) == IF a >= b THEN a - b ELSE 0
Min(a, b) == IF a <= b THEN a ELSE b
Max(a, b) == IF a >= b THEN a ELSE b
AsU16(n) == n % U16

(***************************************************************************)
(* Text: a string is a sequence of characters (grapheme clusters).         *)
(***************************************************************************)
IsWhitespace(c) == c \in {" ", "\n", "\t"}

\* s.split(sep): the pieces between separators, a trailing empty piece included
SplitOn(s, sep) ==
    LET RECURSIVE go(_, _, _)
        go(i, cur, acc) ==
            IF i > Len(s) THEN Append(acc, cur)
            ELSE IF s[i] = sep THEN go(i + 1, <<>>, Append(acc, cur))
            ELSE go(i + 1, Append(cur, s[i]), acc)
    IN go(1, <<>>, <<>>)

\* str::lines(): split on newlines, no empty last line for a trailing newline
Lines(s) ==
    LET parts == SplitOn(s, "\n")
    IN IF parts[Len(parts)] = <<>> THEN SubSeq(parts, 1, Len(parts) - 1) ELSE parts

\* lines.join(sep)
Join(ls, sep) ==
    LET RECURSIVE go(_)
        go(i) == IF i > Len(ls) THEN <<>>
                 ELSE IF i = Len(ls) THEN ls[i]
                 ELSE ls[i] \o <<sep>> \o go(i + 1)
    IN go(1)

\* strip_ansi_escapes::strip_str: the text without its escape sequences
strip_str(s) == SelectSeq(s, LAMBDA c : c # "ESC")

\* textwrap::wrap of one line: words put on a line while they fit, a word longer
\* than the width broken at the width
WrapLine(line, width) ==
    LET words == SelectSeq(SplitOn(line, " "), LAMBDA w : w # <<>>)
        RECURSIVE go(_, _, _)
        go(ws, cur, acc) ==
            IF ws = <<>> THEN Append(acc, cur)
            ELSE LET w == Head(ws) IN
                 IF Len(w) > width
                 THEN go(<<SubSeq(w, width + 1, Len(w))>> \o Tail(ws), <<>>,
                         (IF cur = <<>> THEN acc ELSE Append(acc, cur))
                            \o <<SubSeq(w, 1, width)>>)
                 ELSE IF cur = <<>> THEN go(Tail(ws), w, acc)
                 ELSE IF Len(cur) + 1 + Len(w) <= width
                      THEN go(Tail(ws), cur \o <<" ">> \o w, acc)
                 ELSE go(Tail(ws), w, Append(acc, cur))
    IN go(words, <<>>, <<>>)

\* textwrap::wrap(text, width): every line of the text wrapped, an empty last
\* line kept for a trailing newline
wrap(text, width) ==
    LET parts == SplitOn(text, "\n")
        RECURSIVE go(_)
        go(i) == IF i > Len(parts) THEN <<>> ELSE WrapLine(parts[i], width) \o go(i + 1)
    IN go(1)

(***************************************************************************)
(* Decimal numbers: format!("{manwidth}") and str::parse::<u16>.           *)
(***************************************************************************)
DigitSeq == <<"0", "1", "2", "3", "4", "5", "6", "7", "8", "9">>
DigitVal(c) == (CHOOSE d \in 1..10 : DigitSeq[d] = c) - 1

\* format!("{n}") of an unsigned number: its decimal digits, no leading zero
FormatUnsigned(n) ==
    LET RECURSIVE go(_)
        go(m) == IF m < 10 THEN <<DigitSeq[m + 1]>>
                 ELSE Append(go(m \div 10), DigitSeq[(m % 10) + 1])
    IN go(n)

\* s.parse::<u16>(): an optional '+', then one or more digits, the value below 2^16
ParseU16(s) ==
    LET body == IF s # <<>> /\ s[1] = "+" THEN Tail(s) ELSE s
        RECURSIVE go(_, _)
        go(i, acc) ==
            IF i > Len(body) THEN acc
            ELSE IF body[i] \notin Digits THEN -1
            ELSE IF acc * 10 + DigitVal(body[i]) >= U16 THEN -1
            ELSE go(i + 1, acc * 10 + DigitVal(body[i]))
        v == IF body = <<>> THEN -1 ELSE go(1, 0)
    IN [ok |-> v >= 0, val |-> v]

(***************************************************************************)
(* text_handling.rs                                                        *)
(***************************************************************************)
\* The UTF-8 bytes of a cluster: one byte for ASCII, two for the accented letter.
Utf8(c) == IF c = "é" THEN <<"C3", "A9">> ELSE <<c>>

\* line.as_bytes(): the bytes of all clusters
Bytes(line) ==
    LET RECURSIVE go(_)
        go(i) == IF i > Len(line) THEN <<>> ELSE Utf8(line[i]) \o go(i + 1)
    IN go(1)

\* byte_offsets: 0, then the running sum of the clusters' byte lengths
ByteOffsets(graphemes) ==
    LET RECURSIVE go(_, _, _)
        go(i, accum, out) ==
            IF i > Len(graphemes) THEN out
            ELSE go(i + 1, accum + Len(Utf8(graphemes[i])),
                    Append(out, accum + Len(Utf8(graphemes[i]))))
    IN go(1, 0, <<0>>)

LeftBoundary(g) == IsWhitespace(g) \/ g \in {"/", "(", ")"}

\* a variant in which parentheses end the forward walk too
RightBoundaryParens(g) == IsWhitespace(g) \/ g \in {"/", "(", ")"}

RightBoundary(g) == IsWhitespace(g) \/ g = "/"

\* the backward walk: the 0-based index where the word starts
WalkStart(graphemes, col) ==
    LET RECURSIVE go(_)
        go(start) == IF start > 0 /\ ~LeftBoundary(graphemes[start]) THEN go(start - 1)
                     ELSE start
    IN go(col)

\* the forward walk: the 0-based index one past the word's end
WalkEnd(graphemes, col) ==
    LET RECURSIVE go(_)
        go(end) == IF end < Len(graphemes) /\ ~RightBoundary(graphemes[end + 1])
                   THEN go(end + 1) ELSE end
    IN go(col)

NoWord(cache) == [some |-> FALSE, word |-> <<>>, cache |-> cache, panic |-> FALSE]

\* a variant without the test for whitespace
NotOnWordPastEndOnly(graphemes, col) == col >= Len(graphemes)

\* the two early returns: the column is past the line's clusters, or the
\* cluster at the column is whitespace
NotOnWord(graphemes, col) ==
    \/ col >= Len(graphemes)
    \/ IsWhitespace(graphemes[col + 1])

\* a variant that keys the cached offsets by the line's index
CacheKeyByIndex(line, index) == index

\* the key of the offsets cache: the text of the line
CacheKey(line, index) == line

\* word_at_position(lines, scroll, row, col) with the static offsets cache (a
\* function from keys to offsets): the word found, if any, the cache after, and
\* whether an index or a slice was out of range (a panic)
word_at_position(lines, scroll, row, col, cache) ==
    IF col = 0 THEN NoWord(cache)                   \* col.checked_sub(1)?
    ELSE IF row + scroll = 0 THEN NoWord(cache)     \* checked_sub(1)?
    ELSE IF row + scroll - 1 >= Len(lines) THEN NoWord(cache)
    ELSE
      LET line == lines[row + scroll]               \* 0-based index row + scroll - 1
          graphemes == line
          c == col - 1
      IN IF NotOnWord(graphemes, c) THEN NoWord(cache)
         ELSE
           LET start == WalkStart(graphemes, c)
               end == WalkEnd(graphemes, c)
               key == CacheKey(line, row + scroll)
               hit == \E e \in cache : e.key = key
               offsets == IF hit THEN (CHOOSE e \in cache : e.key = key).offsets
                          ELSE ByteOffsets(graphemes)
               indexed == start + 1 <= Len(offsets) /\ end + 1 <= Len(offsets)
               start_byte == offsets[start + 1]
               end_byte == offsets[end + 1]
               boundaries == {ByteOffsets(graphemes)[k] : k \in 1..(Len(graphemes) + 1)}
               sliced == /\ indexed
                         /\ start_byte <= end_byte
                         /\ start_byte \in boundaries
                         /\ end_byte \in boundaries
               after == IF hit THEN cache ELSE cache \cup {[key |-> key, offsets |-> offsets]}
           IN IF sliced
              THEN [some |-> TRUE,
                    word |-> SubSeq(Bytes(line), start_byte + 1, end_byte),
                    cache |-> after, panic |-> FALSE]
              ELSE [some |-> FALSE, word |-> <<>>, cache |-> after, panic |-> TRUE]

\* get_man_string: the text before the first whitespace, stripped
get_man_string(s) ==
    LET ws == {i \in 1..Len(s) : IsWhitespace(s[i])}
    IN IF ws = {} THEN [ok |-> FALSE, val |-> <<>>]
       ELSE [ok |-> TRUE,
             val |-> strip_str(SubSeq(s, 1, (CHOOSE i \in ws : \A j \in ws : i <= j) - 1))]

(***************************************************************************)
(* man_page_info.rs                                                        *)
(***************************************************************************)
NotManRef == [ok |-> FALSE, name |-> <<>>, section_number |-> <<>>]

\* a variant that also asks for the closing parenthesis
try_from_closed(value) ==
    LET parens == {i \in 1..Len(value) : value[i] = "("}
    IN IF \E i \in 1..Len(value) : value[i] \in {"NUL", "/"} THEN NotManRef
       ELSE IF parens = {} THEN NotManRef
       ELSE LET open_paren_index == CHOOSE i \in parens : \A j \in parens : i <= j
            IN IF open_paren_index + 2 > Len(value) THEN NotManRef
               ELSE IF value[open_paren_index + 1] \notin Digits THEN NotManRef
               ELSE IF value[open_paren_index + 2] # ")" THEN NotManRef
               ELSE [ok |-> TRUE,
                     name |-> SubSeq(value, 1, open_paren_index - 1),
                     section_number |-> SubSeq(value, open_paren_index + 1,
                                               open_paren_index + 1)]

\* ManPageInfo::try_from(value)
try_from(value) ==
    LET parens == {i \in 1..Len(value) : value[i] = "("}
    IN IF \E i \in 1..Len(value) : value[i] \in {"NUL", "/"} THEN NotManRef
       ELSE IF parens = {} THEN NotManRef
       ELSE LET open_paren_index == CHOOSE i \in parens : \A j \in parens : i <= j
            IN IF open_paren_index + 1 > Len(value) THEN NotManRef
               ELSE IF value[open_paren_index + 1] \notin Digits THEN NotManRef
               ELSE [ok |-> TRUE,
                     name |-> SubSeq(value, 1, open_paren_index - 1),
                     section_number |-> SubSeq(value, open_paren_index + 1,
                                               open_paren_index + 1)]

\* CString::new(s): fails on a NUL inside s
CStringNew(s) ==
    IF \E i \in 1..Len(s) : s[i] = "NUL" THEN [ok |-> FALSE, val |-> <<>>]
    ELSE [ok |-> TRUE, val |-> s]

\* a variant that returns the name first
as_args_name_first(info) ==
    LET section == CStringNew(info.section_number)
        name == CStringNew(info.name)
    IN IF ~section.ok \/ ~name.ok THEN [ok |-> FALSE, args |-> <<>>]
       ELSE [ok |-> TRUE, args |-> <<name.val, section.val>>]

\* ManPageInfo::as_args: the section and the name as two C strings
as_args(info) ==
    LET section == CStringNew(info.section_number)
        name == CStringNew(info.name)
    IN IF ~section.ok \/ ~name.ok THEN [ok |-> FALSE, args |-> <<>>]
       ELSE [ok |-> TRUE, args |-> <<section.val, name.val>>]

\* the pager option built by exec_self: "<this program> --subsequent-run"
SelfPager == <<"SELF", " ", "--subsequent-run">>

\* exec_self: the argument vector handed to execvp, or the error of as_args
exec_argv(info) ==
    LET a == as_args(info)
    IN IF ~a.ok THEN [ok |-> FALSE, argv |-> <<>>]
       ELSE [ok |-> TRUE, argv |-> <<<<"man">>, <<"-P">>, SelfPager, a.args[1], a.args[2]>>]

(***************************************************************************)
(* The terminal.                                                           *)
(***************************************************************************)
\* The terminal as the shell leaves it: cooked, primary screen, no capture, cursor shown.
OriginalTerm == [raw |-> FALSE, alt |-> FALSE, capture |-> FALSE, cursor |-> TRUE]

EnableMouseCapture(t) == [t EXCEPT !.capture = TRUE]
DisableMouseCapture(t) == [t EXCEPT !.capture = FALSE]
EnterAlternateScreen(t) == [t EXCEPT !.alt = TRUE]
LeaveAlternateScreen(t) == [t EXCEPT !.alt = FALSE]

\* terminal::enable_raw_mode: the terminal made raw (the mode found is saved)
enable_raw_mode(t) == [t EXCEPT !.raw = TRUE]
\* terminal::disable_raw_mode: the mode saved by enable_raw_mode is put back
disable_raw_mode(t, prior_raw) == [t EXCEPT !.raw = (prior_raw = "raw")]

(***************************************************************************)
(* Processes.                                                              *)
(***************************************************************************)
\* A slot that holds no process; also the fresh state of every field.
FreeProc ==
    [pc |-> "free",              \* free, main, run, read, wait, forked, man, exited
     flag |-> FALSE,             \* started with --subsequent-run
     content |-> <<>>,           \* the page read from stdin
     lines |-> <<>>, num_lines |-> 0, scroll |-> 0, height |-> 0,
     mouse_mode |-> "LinkClicking",
     search_mode |-> "NoSearch", search_input |-> <<>>,
     manwidth |-> <<>>,          \* MANWIDTH in this process's environment
     prior_raw |-> "none",       \* the terminal mode saved by enable_raw_mode
     hook |-> FALSE,             \* the panic hook of App::run is registered
     entered |-> FALSE,          \* enable_raw_mode was called: interactive mode
     reexecs |-> 0,              \* startup re-execs that led to this process
     jump |-> "none",            \* what the last try_link_jump returned: ok, err
     reaped |-> "none",          \* what its wait reaped: exited0, exitedN, signaled
     cleared |-> FALSE,          \* terminal.clear() was called for the last event
     wkind |-> "none",           \* how it ended: exited, signaled
     code |-> 0,                 \* its exit status
     wcode |-> 0,                \* the exit status its parent's wait sees
     cause |-> "none"]           \* why it ended: quit, error, panic, exec, signal, man

\* A process that ended.  What the parent's wait sees is the status of the process
\* it forked: man, which reports a pager that failed as ManChildFailCode.
Exited(pr, kind, code, wcode, cause) ==
    [FreeProc EXCEPT !.pc = "exited", !.wkind = kind, !.code = code, !.wcode = wcode,
                     !.cause = cause, !.flag = pr.flag, !.manwidth = pr.manwidth,
                     !.reexecs = pr.reexecs, !.entered = pr.entered]

ManStatus(code) == IF code = 0 THEN 0 ELSE ManChildFailCode

Live(pr) == pr.pc \notin {"free", "exited"}
InLoop(pr) == pr.pc = "read"
Composing(pr) == loop_impl = "App" /\ pr.search_mode = "TypingQuery"

\* a variant without the early return: MANWIDTH is computed at every call
set_man_width_variable_always(manwidth, size_ok, cols) ==
    FormatUnsigned(SatSub(IF size_ok THEN cols ELSE DefaultCols, WidthMargin))

\* set_man_width_variable: the new value of MANWIDTH; cols is the terminal's
\* width, size_ok whether terminal::size() succeeded
set_man_width_variable(manwidth, size_ok, cols) ==
    IF ParseU16(manwidth).ok THEN manwidth
    ELSE FormatUnsigned(SatSub(IF size_ok THEN cols ELSE DefaultCols, WidthMargin))

\* The end of main after run returned res: the terminal restored, then the exit.
MainReturn(pr, t, res_ok) ==
    [proc |-> Exited(pr, "exited", IF res_ok THEN 0 ELSE ErrExitCode,
                     ManStatus(IF res_ok THEN 0 ELSE ErrExitCode),
                     IF res_ok THEN "quit" ELSE "error"),
     term |-> [DisableMouseCapture(LeaveAlternateScreen(disable_raw_mode(t, pr.prior_raw)))
                  EXCEPT !.cursor = TRUE]]

\* A panic in a process that holds a Terminal: the hook of App::run (if set)
\* disables mouse capture; unwinding drops the Terminal, which shows the cursor,
\* and exits with PanicExitCode; a build with panic=abort ends by SIGABRT.
Panic(pr, t, unwind) ==
    [proc |-> IF unwind
              THEN Exited(pr, "exited", PanicExitCode, ManStatus(PanicExitCode), "panic")
              ELSE Exited(pr, "signaled", 0, 0, "panic"),
     term |-> [t EXCEPT !.capture = IF pr.hook THEN FALSE ELSE @,
                        !.cursor = IF unwind THEN TRUE ELSE @]]

\* a variant that never sees the marker
SubsequentRunIgnored(pr) == FALSE

\* main: whether --subsequent-run is among the arguments
SubsequentRun(pr) == pr.flag

\* main returning an error before run was called: no restoration
EarlyError(pr, t) ==
    [proc |-> Exited(pr, "exited", ErrExitCode, ManStatus(ErrExitCode), "error"),
     term |-> t]

Step(p, out) ==
    /\ procs' = [procs EXCEPT ![p] = out.proc]
    /\ term' = out.term

(***************************************************************************)
(* The initial state: one process, started on a terminal in its original   *)
(* state, with or without --subsequent-run.                                *)
(***************************************************************************)
\* no function is examined on its own
NoProbe == [fn |-> "none"]

Init ==
    /\ loop_impl \in {"run", "App"}
    /\ probe = NoProbe
    /\ size \in Sizes
    /\ term = OriginalTerm
    /\ \E flag \in BOOLEAN, w \in InitWidths :
         procs = [p \in Procs |->
                    IF p = 1 THEN [FreeProc EXCEPT !.pc = "main", !.flag = flag,
                                                   !.manwidth = w]
                    ELSE FreeProc]

(***************************************************************************)
(* main, up to the call of run (main.rs 30-64).                            *)
(***************************************************************************)
Main(p, content, fail, size_ok) ==
    LET pr == procs[p]
        man_string == get_man_string(content)
        width == set_man_width_variable(pr.manwidth, size_ok, size.cols)
        raw == [proc |-> [pr EXCEPT !.content = content, !.entered = TRUE,
                                    !.prior_raw = IF term.raw THEN "raw" ELSE "cooked"],
                term |-> enable_raw_mode(term)]
        screen == [proc |-> raw.proc,
                   term |-> EnableMouseCapture(EnterAlternateScreen(raw.term))]
    IN
    /\ pr.pc = "main"
    /\ UNCHANGED <<size, loop_impl, probe>>
    /\ IF ~man_string.ok THEN Step(p, EarlyError(pr, term))
       ELSE IF ~SubsequentRun(pr)
       THEN \* first run: set MANWIDTH, parse the page's own reference, exec man
            IF ~try_from(man_string.val).ok \/ fail = "exec"
            THEN Step(p, EarlyError([pr EXCEPT !.manwidth = width], term))
            ELSE Step(p, [proc |-> [FreeProc EXCEPT !.pc = "man", !.manwidth = width,
                                                    !.reexecs = pr.reexecs + 1],
                          term |-> term])
       ELSE CASE fail = "dup2" ->       \* panic before any terminal setup
                   Step(p, [proc |-> Exited(pr, "exited", PanicExitCode,
                                            ManStatus(PanicExitCode), "panic"),
                            term |-> term])
              [] fail = "raw" -> Step(p, EarlyError(pr, term))
              [] fail = "execute" -> Step(p, EarlyError(raw.proc, raw.term))
              [] fail = "terminal" -> Step(p, EarlyError(screen.proc, screen.term))
              [] OTHER -> Step(p, [proc |-> [screen.proc EXCEPT !.pc = "run"],
                                   term |-> screen.term])

(***************************************************************************)
(* One frame: terminal.draw (main.rs 107-127, app.rs 90 and 102-144).      *)
(***************************************************************************)
\* the per-frame clamp of the scroll offset
ClampScroll(scroll, num_lines, height) ==
    Min(scroll, AsU16(SatSub(num_lines, height) + BorderRows))

\* self.num_lines - self.height + 2 in u16, evaluated left to right: a result
\* out of range is a panic with overflow checks and wraps without
jump_bottom(num_lines, height, checked) ==
    LET diff == num_lines - height
        underflow == diff < 0
        overflow == AsU16(diff) + BorderRows >= U16
    IN [underflow |-> underflow,
        panic |-> checked /\ (underflow \/ overflow),
        scroll |-> AsU16(diff + BorderRows)]

\* render: Layout::vertical([Fill(1), Length(1)]) gives the last row to the
\* search input, and the borders of the block take two more: the rows left for
\* the text of the page
content_rows(height) == SatSub(SatSub(height, 1), BorderRows)

\* render: Paragraph::scroll((scroll, 0)): the indices (from 0) of the lines drawn
drawn(scroll, height, num_lines) ==
    {i \in 0..(num_lines - 1) : scroll <= i /\ i < scroll + content_rows(height)}

\* render: the viewport height is read and the offset clamped; the cursor is
\* shown only while a search query is typed, and hidden by draw otherwise.
\* The process then waits in event::read.
Frame(pr, t, rows) ==
    [proc |-> [pr EXCEPT !.pc = "read", !.height = rows,
                         !.scroll = ClampScroll(pr.scroll, pr.num_lines, rows)],
     term |-> [t EXCEPT !.cursor = Composing(pr)]]

(***************************************************************************)
(* The start of run (main.rs 92-105) or of App::new and App::run           *)
(* (app.rs 50-87): the lines of the page, MANWIDTH, the panic hook, and    *)
(* the first frame.                                                        *)
(***************************************************************************)
RunStart(p, size_ok) ==
    LET pr == procs[p]
        lines == Lines(strip_str(pr.content))
        app == [pr EXCEPT !.lines = lines, !.num_lines = AsU16(Len(lines)),
                          !.scroll = 0, !.height = 0,
                          !.manwidth = set_man_width_variable(pr.manwidth, size_ok,
                                                              size.cols)]
    IN
    /\ pr.pc = "run"
    /\ UNCHANGED <<size, loop_impl, probe>>
    /\ IF loop_impl = "run"
       THEN Step(p, Frame(app, term, size.rows))
       ELSE Step(p, Frame([app EXCEPT !.hook = TRUE], EnableMouseCapture(term), size.rows))

(***************************************************************************)
(* The events of handle_event (app.rs 146-226) and of run (main.rs         *)
(* 129-194), each followed by the next frame of the loop.  Mouse events    *)
(* reach a process only while the terminal captures the mouse.             *)
(***************************************************************************)
Reading(pr) == pr.pc = "read" /\ ~Composing(pr)

\* the event is handled (pr, t are the state after it) and the next frame drawn
Handled(p, pr, t) ==
    /\ Step(p, Frame([pr EXCEPT !.jump = "none", !.reaped = "none", !.cleared = FALSE],
                      t, size'.rows))
    /\ UNCHANGED <<loop_impl, probe>>

\* terminal.draw()? or event::read()? fails: run returns the error
IoError(p) ==
    /\ procs[p].pc \in {"run", "read"}
    /\ UNCHANGED <<size, loop_impl, probe>>
    /\ Step(p, MainReturn(procs[p], term, FALSE))

\* 'q': the loop ends, App::run disables mouse capture, main restores the terminal
KeyQuit(p) ==
    /\ Reading(procs[p])
    /\ UNCHANGED <<size, loop_impl, probe>>
    /\ Step(p, MainReturn(procs[p], term, TRUE))

\* Down, 'j' or the wheel
ScrollDown(p, src) ==
    LET pr == procs[p] IN
    /\ Reading(pr)
    /\ src = "wheel" => term.capture
    /\ UNCHANGED size
    /\ Handled(p, [pr EXCEPT !.scroll = pr.scroll + 1], term)

\* Up, 'k' or the wheel
ScrollUp(p, src) ==
    LET pr == procs[p] IN
    /\ Reading(pr)
    /\ src = "wheel" => term.capture
    /\ UNCHANGED size
    /\ Handled(p, [pr EXCEPT !.scroll = SatSub(pr.scroll, 1)], term)

\* 'G': scroll = num_lines - height + 2 in u16; the subtraction underflows when
\* num_lines < height: a panic with overflow checks, a wrapped value without
JumpBottom(p, checked) ==
    LET pr == procs[p]
        g == jump_bottom(pr.num_lines, pr.height, checked)
    IN
    /\ Reading(pr)
    /\ UNCHANGED size
    /\ IF g.panic
       THEN /\ \E unwind \in BOOLEAN : Step(p, Panic(pr, term, unwind))
            /\ UNCHANGED <<loop_impl, probe>>
       ELSE Handled(p, [pr EXCEPT !.scroll = g.scroll], term)

\* 'g'
JumpTop(p) ==
    /\ Reading(procs[p])
    /\ UNCHANGED size
    /\ Handled(p, [procs[p] EXCEPT !.scroll = 0], term)

\* a variant that flips the mode before the instruction is issued
toggle_flip_first(pr, t, io_ok) ==
    LET flipped == [pr EXCEPT !.mouse_mode = IF @ = "LinkClicking" THEN "TextSelection"
                                             ELSE "LinkClicking"]
    IN [ok |-> io_ok, proc |-> flipped,
        term |-> IF ~io_ok THEN t
                 ELSE IF pr.mouse_mode = "LinkClicking" THEN DisableMouseCapture(t)
                 ELSE EnableMouseCapture(t)]

\* toggle (program_mode.rs) and toggle_mouse_mode (app.rs): the instruction is
\* issued, then the mode is flipped; an instruction that cannot be issued
\* (io_ok false) returns the error before the flip
toggle(pr, t, io_ok) ==
    IF ~io_ok THEN [ok |-> FALSE, proc |-> pr, term |-> t]     \* execute!(...)? returned
    ELSE IF pr.mouse_mode = "LinkClicking"
    THEN [ok |-> TRUE, proc |-> [pr EXCEPT !.mouse_mode = "TextSelection"],
          term |-> DisableMouseCapture(t)]
    ELSE [ok |-> TRUE, proc |-> [pr EXCEPT !.mouse_mode = "LinkClicking"],
          term |-> EnableMouseCapture(t)]

\* apply (program_mode.rs) and apply_mouse_mode (app.rs): the instruction of the
\* current mode is issued again
apply(pr, t) ==
    IF pr.mouse_mode = "LinkClicking" THEN EnableMouseCapture(t) ELSE DisableMouseCapture(t)

\* alt-i
ToggleMouse(p, io_ok) ==
    LET pr == procs[p]
        out == toggle(pr, term, io_ok)
    IN
    /\ Reading(pr)
    /\ UNCHANGED size
    /\ IF ~out.ok
       THEN Step(p, MainReturn(out.proc, out.term, FALSE)) /\ UNCHANGED <<loop_impl, probe>>
       ELSE Handled(p, out.proc, out.term)

\* '/': App starts the composition of a search query
EnterSearch(p) ==
    /\ loop_impl = "App"
    /\ Reading(procs[p])
    /\ UNCHANGED size
    /\ Handled(p, [procs[p] EXCEPT !.search_mode = "TypingQuery"], term)

\* any other key or mouse event: nothing changes
Ignored(p) ==
    /\ Reading(procs[p])
    /\ UNCHANGED size
    /\ Handled(p, procs[p], term)

\* a resize of the terminal: the lines are wrapped again at the new width and
\* set_man_width_variable is called; while a query is composed the event goes
\* to the query input, which ignores it
Resize(p, new_size, size_ok) ==
    LET pr == procs[p]
        cols == new_size.cols
        lines == wrap(strip_str(pr.content), cols)
    IN
    /\ pr.pc = "read"
    /\ size' = new_size
    /\ size' # size
    /\ IF Composing(pr) THEN Handled(p, pr, term)
       ELSE Handled(p, [pr EXCEPT !.lines = lines, !.num_lines = AsU16(Len(lines)),
                                  !.manwidth = set_man_width_variable(pr.manwidth,
                                                                      size_ok, cols)],
                    term)

(***************************************************************************)
(* The composition of a search query (app.rs 150-158, 263-273).            *)
(***************************************************************************)
\* Enter: perform_search panics
SearchEnter(p, unwind) ==
    /\ procs[p].pc = "read" /\ Composing(procs[p])
    /\ UNCHANGED <<size, loop_impl, probe>>
    /\ Step(p, Panic(procs[p], term, unwind))

\* Escape: cancel_search
SearchEsc(p) ==
    /\ procs[p].pc = "read" /\ Composing(procs[p])
    /\ UNCHANGED size
    /\ Handled(p, [procs[p] EXCEPT !.search_input = <<>>, !.search_mode = "NoSearch"], term)

\* a variant in which 'q' ends the loop while a query is typed
SearchOtherQuits(p, ev) ==
    LET pr == procs[p] IN
    /\ pr.pc = "read" /\ Composing(pr)
    /\ ev \in QueryKeys => Len(pr.search_input) < MaxQuery
    /\ ev = "mouse" => term.capture
    /\ UNCHANGED size
    /\ IF ev = "q"
       THEN Step(p, MainReturn(pr, term, TRUE)) /\ UNCHANGED <<loop_impl, probe>>
       ELSE Handled(p, [pr EXCEPT !.search_input =
                     IF ev \in QueryKeys THEN Append(@, ev)
                     ELSE IF ev = "backspace" /\ @ # <<>> THEN SubSeq(@, 1, Len(@) - 1)
                     ELSE @], term)

\* every other event goes to the query input: a character is inserted,
\* backspace deletes one, anything else is ignored
SearchOther(p, ev) ==
    LET pr == procs[p] IN
    /\ pr.pc = "read" /\ Composing(pr)
    /\ ev \in QueryKeys => Len(pr.search_input) < MaxQuery
    /\ ev = "mouse" => term.capture
    /\ UNCHANGED size
    /\ Handled(p, [pr EXCEPT !.search_input =
                     IF ev \in QueryKeys THEN Append(@, ev)
                     ELSE IF ev = "backspace" /\ @ # <<>> THEN SubSeq(@, 1, Len(@) - 1)
                     ELSE @], term)

(***************************************************************************)
(* The link jump (app.rs 175-200 and 314-369, main.rs 146-171 and 200-255).*)
(***************************************************************************)
ClickRows == 0..2
ClickCols == {0, 1, 3, 5}

\* LINE_OFFSETS_CACHE as the locator finds it.  The cache is read and written by
\* word_at_position alone; its growth over the calls of one process is followed
\* in the locator's own specification, not in the state of the pager.
NoCache == {}

\* a variant that takes every normal exit of the child for a success
JumpResultAnyExit(wkind, wcode) ==
    IF wkind = "exited" THEN "ok" ELSE "err"

\* the parent's branch of try_link_jump after wait returned: Ok only for a child
\* that exited with status 0
JumpResult(wkind, wcode) ==
    IF wkind = "exited" /\ wcode = 0 THEN "ok" ELSE "err"

\* after try_link_jump returned in the parent: the mouse mode is applied again
\* only after a successful jump (then terminal.clear())
AfterJump(pr, t, result) == IF result = "ok" THEN apply(pr, t) ELSE t

\* a variant in which the child's error is returned to the caller's loop
ExecFailedInChildReturns(pr, t, unwind) ==
    [proc |-> [pr EXCEPT !.pc = "read", !.jump = "err"], term |-> t]

\* the child's branch of try_link_jump when exec_self returned an error: the
\* closure of inspect_err panics
ExecFailedInChild(pr, t, unwind) ==
    [proc |-> [Panic(pr, t, unwind).proc EXCEPT !.cause = "exec"],
     term |-> Panic(pr, t, unwind).term]

\* a variant that clears the screen only after a successful jump
ReturnedClearsOnSuccess(p, pr, result, reaped, io_ok) ==
    IF ~io_ok THEN MainReturn(pr, AfterJump(pr, term, result), FALSE)
    ELSE LET out == Frame(pr, AfterJump(pr, term, result), size.rows)
         IN [proc |-> [out.proc EXCEPT !.jump = result, !.reaped = reaped,
                                       !.cleared = (result = "ok")],
             term |-> out.term]

\* try_link_jump returned result in the parent: apply, clear, the next frame; an
\* error of apply or clear is returned by run
Returned(p, pr, result, reaped, io_ok) ==
    IF ~io_ok THEN MainReturn(pr, AfterJump(pr, term, result), FALSE)
    ELSE LET out == Frame(pr, AfterJump(pr, term, result), size.rows)
         IN [proc |-> [out.proc EXCEPT !.jump = result, !.reaped = reaped,
                                       !.cleared = TRUE],
             term |-> out.term]

\* (1..=self.height - 3).contains(&row): height - 3 underflows below three rows,
\* a panic with overflow checks and a wrapped upper bound without
click_area(height, row, checked) ==
    IF checked /\ height < InputRows THEN "panic"
    ELSE IF 1 <= row /\ row <= AsU16(height - InputRows) THEN "in"
    ELSE "out"

\* what the handler does with the locator's answer: the parser is called on a
\* word found, try_link_jump on a reference parsed
clicked(found) ==
    [parsed |-> found.some,
     jump |-> found.some /\ try_from(found.word).ok]

\* the release of the left button at (row, col)
Click(p, row, col, fork_ok) ==
    LET pr == procs[p]
        \* height - 3 underflows below three rows: a panic with overflow checks,
        \* a wrapped upper bound without
        underflow == loop_impl = "App" /\ click_area(pr.height, row, TRUE) = "panic"
        in_area == loop_impl = "run" \/ click_area(pr.height, row, FALSE) = "in"
        found == word_at_position(pr.lines, pr.scroll, row, col, NoCache)
        forked == fork_ok /\ p < MaxProcs /\ procs[p + 1].pc = "free"
    IN
    /\ Reading(pr)
    /\ term.capture
    /\ UNCHANGED size
    /\ \/ /\ underflow
          /\ \E unwind \in BOOLEAN : Step(p, Panic(pr, term, unwind))
          /\ UNCHANGED <<loop_impl, probe>>
       \/ IF in_area /\ found.panic
          THEN /\ \E unwind \in BOOLEAN : Step(p, Panic(pr, term, unwind))
               /\ UNCHANGED <<loop_impl, probe>>
          ELSE IF ~in_area \/ ~clicked(found).jump
          THEN Handled(p, pr, term)
          ELSE IF forked
          THEN \* fork: the child is a copy of the parent, which blocks in wait
               /\ procs' = [procs EXCEPT
                      ![p] = [pr EXCEPT !.pc = "wait", !.jump = "none", !.reaped = "none",
                                        !.cleared = FALSE],
                      ![p + 1] = [pr EXCEPT !.pc = "forked", !.jump = "none",
                                            !.reaped = "none", !.cleared = FALSE]]
               /\ UNCHANGED <<term, loop_impl, probe>>
          ELSE \* fork failed: try_link_jump returns the error, the screen is cleared
               /\ \E io_ok \in BOOLEAN : Step(p, Returned(p, pr, "err", "none", io_ok))
               /\ UNCHANGED <<loop_impl, probe>>

\* the forked child: exec_self replaces it by man, or fails
ChildExec(c, exec_ok) ==
    LET pr == procs[c] IN
    /\ pr.pc = "forked"
    /\ UNCHANGED <<size, loop_impl, probe>>
    /\ IF exec_ok
       THEN Step(c, [proc |-> [FreeProc EXCEPT !.pc = "man", !.manwidth = pr.manwidth],
                     term |-> term])
       ELSE \E unwind \in BOOLEAN : Step(c, ExecFailedInChild(pr, term, unwind))

\* man -P "<this program> --subsequent-run" section name: the page is formatted
\* to MANWIDTH and the pager is started on it, or the page does not exist
Man(c, found) ==
    LET pr == procs[c] IN
    /\ pr.pc = "man"
    /\ UNCHANGED <<term, size, loop_impl, probe>>
    /\ procs' = [procs EXCEPT ![c] =
                   IF found THEN [pr EXCEPT !.pc = "main", !.flag = TRUE]
                   ELSE Exited(pr, "exited", ManNotFoundCode, ManNotFoundCode, "man")]

\* wait returns the status of the child that ended
WaitReturn(p, io_ok) ==
    LET pr == procs[p]
        ch == procs[p + 1]
        reaped == IF ch.wkind = "signaled" THEN "signaled"
                  ELSE IF ch.wcode = 0 THEN "exited0" ELSE "exitedN"
        out == Returned(p, pr, JumpResult(ch.wkind, ch.wcode), reaped, io_ok)
    IN
    /\ pr.pc = "wait"
    /\ p < MaxProcs
    /\ ch.pc = "exited"
    /\ UNCHANGED <<size, loop_impl, probe>>
    /\ procs' = [procs EXCEPT ![p] = out.proc, ![p + 1] = FreeProc]
    /\ term' = out.term

\* wait fails with ECHILD: the child ended and its status was discarded (SIGCHLD
\* is ignored, a disposition inherited over exec); try_link_jump returns the error
WaitFail(p, io_ok) ==
    LET pr == procs[p]
        out == Returned(p, pr, "err", "none", io_ok)
    IN
    /\ pr.pc = "wait"
    /\ p < MaxProcs
    /\ procs[p + 1].pc = "exited"
    /\ UNCHANGED <<size, loop_impl, probe>>
    /\ procs' = [procs EXCEPT ![p] = out.proc, ![p + 1] = FreeProc]
    /\ term' = out.term

\* wait fails with EINTR while the child runs: try_link_jump returns the error
\* at once, the child goes on
WaitInterrupted(p, io_ok) ==
    LET pr == procs[p] IN
    /\ pr.pc = "wait"
    /\ p < MaxProcs
    /\ Live(procs[p + 1])
    /\ UNCHANGED <<size, loop_impl, probe>>
    /\ Step(p, Returned(p, pr, "err", "none", io_ok))

\* a signal ends a child
Kill(c) ==
    /\ c > 1
    /\ Live(procs[c])
    /\ UNCHANGED <<term, size, loop_impl, probe>>
    /\ procs' = [procs EXCEPT ![c] = Exited(procs[c], "signaled", 0, 0, "signal")]

(***************************************************************************)
(* The specification.                                                      *)
(***************************************************************************)
MainFailures == {"none", "exec", "dup2", "raw", "execute", "terminal"}

Next ==
    \E p \in Procs :
        \/ \E content \in Contents, fail \in MainFailures, size_ok \in BOOLEAN :
               Main(p, content, fail, size_ok)
        \/ \E size_ok \in BOOLEAN : RunStart(p, size_ok)
        \/ IoError(p)
        \/ KeyQuit(p)
        \/ \E src \in {"key", "wheel"} : ScrollDown(p, src)
        \/ \E src \in {"key", "wheel"} : ScrollUp(p, src)
        \/ \E checked \in BOOLEAN : JumpBottom(p, checked)
        \/ JumpTop(p)
        \/ \E io_ok \in BOOLEAN : ToggleMouse(p, io_ok)
        \/ EnterSearch(p)
        \/ Ignored(p)
        \/ \E new_size \in Sizes, size_ok \in BOOLEAN : Resize(p, new_size, size_ok)
        \/ \E unwind \in BOOLEAN : SearchEnter(p, unwind)
        \/ SearchEsc(p)
        \/ \E ev \in QueryKeys \cup {"backspace", "mouse", "other"} : SearchOther(p, ev)
        \/ \E row \in ClickRows, col \in ClickCols, fork_ok \in BOOLEAN :
               Click(p, row, col, fork_ok)
        \/ \E exec_ok \in BOOLEAN : ChildExec(p, exec_ok)
        \/ \E found \in BOOLEAN : Man(p, found)
        \/ \E io_ok \in BOOLEAN : WaitReturn(p, io_ok)
        \/ \E io_ok \in BOOLEAN : WaitFail(p, io_ok)
        \/ Kill(p)

Spec == Init /\ [][Next]_vars

(***************************************************************************)
(* The pager started by man (--subsequent-run, MANWIDTH set), in an        *)
(* environment where a signal can interrupt the wait of a link jump.       *)
(***************************************************************************)
InitInterrupted ==
    /\ Init
    /\ procs[1].flag
    /\ procs[1].manwidth = <<"4", "0">>

NextInterrupted ==
    \/ Next
    \/ \E p \in Procs, io_ok \in BOOLEAN : WaitInterrupted(p, io_ok)

SpecInterrupted == InitInterrupted /\ [][NextInterrupted]_vars

(***************************************************************************)
(* Functions examined on their own.  The pager itself stands still: no     *)
(* process runs, the terminal is in its original state.                    *)
(***************************************************************************)
Idle ==
    /\ procs = [p \in Procs |-> FreeProc]
    /\ term = OriginalTerm
    /\ size = [rows |-> 4, cols |-> 12]
    /\ loop_impl = "App"

(***************************************************************************)
(* The mouse mode: toggles applied one after the other to a mode and a     *)
(* capture state, each with the instruction issued or failing.             *)
(***************************************************************************)
MouseModes == {"LinkClicking", "TextSelection"}

InitMouseMode ==
    /\ Idle
    /\ \E m \in MouseModes, c \in BOOLEAN :
         probe = [fn |-> "toggle", mouse_mode |-> m, capture |-> c, log |-> <<>>]

\* one call of toggle; the log keeps the mode before and after it, the capture
\* state after it and whether the instruction was issued
ToggleCall(io_ok) ==
    LET out == toggle([FreeProc EXCEPT !.mouse_mode = probe.mouse_mode],
                      [OriginalTerm EXCEPT !.capture = probe.capture], io_ok)
    IN
    /\ probe.fn = "toggle"
    /\ Len(probe.log) < MaxToggles
    /\ probe' = [probe EXCEPT
                    !.mouse_mode = out.proc.mouse_mode,
                    !.capture = out.term.capture,
                    !.log = Append(@, [before |-> probe.mouse_mode,
                                       after |-> out.proc.mouse_mode,
                                       capture |-> out.term.capture,
                                       ok |-> out.ok])]
    /\ UNCHANGED <<procs, term, size, loop_impl>>

NextMouseMode == \E io_ok \in BOOLEAN : ToggleCall(io_ok)

SpecMouseMode == InitMouseMode /\ [][NextMouseMode]_vars

(***************************************************************************)
(* The reference parser and the arguments of man: every token over          *)
(* TokenChars up to MaxToken characters, and the tokens of ExampleTokens.   *)
(***************************************************************************)
TokenChars == {"m", "(", ")", "2", "/", "NUL"}

RECURSIVE TokensOfLen(_)
TokensOfLen(n) ==
    IF n = 0 THEN {<<>>}
    ELSE {Append(t, c) : t \in TokensOfLen(n - 1), c \in TokenChars}

Mount2 == <<"m", "o", "u", "n", "t", "(", "2", ")">>
Mount2Open == <<"m", "o", "u", "n", "t", "(", "2">>
PasswdPath == <<".", ".", "/", "e", "t", "c", "/", "p", "a", "s", "s", "w", "d", "(", "1", ")">>
WithNul == <<"m", "NUL", "(", "2", ")">>
PlainWord == <<"p", "l", "a", "i", "n", "w", "o", "r", "d">>
ExampleTokens == {Mount2, Mount2Open, PasswdPath, WithNul, PlainWord}

Tokens == UNION {TokensOfLen(n) : n \in 0..MaxToken} \cup ExampleTokens

InitParser ==
    /\ Idle
    /\ probe = [fn |-> "parse", called |-> FALSE, token |-> <<>>, info |-> NotManRef,
                args |-> [ok |-> FALSE, args |-> <<>>],
                exec |-> [ok |-> FALSE, argv |-> <<>>]]

\* a token is parsed; for a reference, as_args and the argv of exec_self follow
ParseCall(token) ==
    LET info == try_from(token) IN
    /\ probe.fn = "parse"
    /\ probe' = [fn |-> "parse", called |-> TRUE, token |-> token, info |-> info,
                 args |-> IF info.ok THEN as_args(info) ELSE [ok |-> FALSE, args |-> <<>>],
                 exec |-> IF info.ok THEN exec_argv(info)
                          ELSE [ok |-> FALSE, argv |-> <<>>]]
    /\ UNCHANGED <<procs, term, size, loop_impl>>

NextParser == \E token \in Tokens : ParseCall(token)

SpecParser == InitParser /\ [][NextParser]_vars

(***************************************************************************)
(* The word locator with its offsets cache, over the calls of one process:  *)
(* clicks at any row and column, and re-wraps of the page in between.       *)
(***************************************************************************)
FooBar == <<"f", "o", "o", " ", "b", "a", "r", "(", "1", ")">>
Baz == <<"b", "a", "z">>
XSlashY == <<"x", "/", "y", "(", "1", ")">>
OptionLike == <<"-", "k", "(", "1", ")", " ", "(", "2", ")">>
\* "foo bar(1)" and "baz" on two lines; "a é(1)" and "xyz" on two lines;
\* "x/y(1)" on one line; "-k(1) (2)" on one line
LocatorContents ==
    {FooBar \o <<"\n">> \o Baz,
     <<"a", " ", "é", "(", "1", ")", "\n", "x", "y", "z">>,
     XSlashY,
     OptionLike}
LocatorWidths == {12, 4}

NoCall == [scroll |-> 0, row |-> 0, col |-> 0]

InitLocator ==
    /\ Idle
    /\ \E content \in LocatorContents :
         probe = [fn |-> "locate", content |-> content,
                  lines |-> Lines(strip_str(content)), cache |-> NoCache,
                  called |-> FALSE, at |-> NoCall, out |-> NoWord(NoCache),
                  did |-> clicked(NoWord(NoCache))]

\* word_at_position is called as the handler of a click calls it
Locate(scroll, row, col) ==
    LET out == word_at_position(probe.lines, scroll, row, col, probe.cache) IN
    /\ probe.fn = "locate"
    /\ probe' = [probe EXCEPT !.called = TRUE,
                               !.at = [scroll |-> scroll, row |-> row, col |-> col],
                               !.out = [out EXCEPT !.cache = NoCache],
                               !.did = clicked(out),
                               !.cache = out.cache]
    /\ UNCHANGED <<procs, term, size, loop_impl>>

\* a resize re-wraps the page; the static cache stays
Rewrap(cols) ==
    /\ probe.fn = "locate"
    /\ probe' = [probe EXCEPT !.lines = wrap(strip_str(probe.content), cols),
                               !.called = FALSE, !.at = NoCall,
                               !.out = NoWord(NoCache), !.did = clicked(NoWord(NoCache))]
    /\ UNCHANGED <<procs, term, size, loop_impl>>

NextLocator ==
    \/ \E scroll \in 0..MaxLocScroll, row \in 0..MaxLocRow, col \in 0..MaxLocCol :
          Locate(scroll, row, col)
    \/ \E cols \in LocatorWidths : Rewrap(cols)

SpecLocator == InitLocator /\ [][NextLocator]_vars

(***************************************************************************)
(* The jump to the bottom and the frame after it, for every line count up   *)
(* to MaxLines and every viewport height up to MaxHeight.                   *)
(***************************************************************************)
InitJumpBottom ==
    /\ Idle
    /\ \E n \in 0..MaxLines, h \in 0..MaxHeight :
         probe = [fn |-> "G", num_lines |-> n, height |-> h, called |-> FALSE,
                  underflow |-> FALSE, panic |-> FALSE, scroll |-> 0]

\* 'G' is pressed, and the next frame clamps the offset
PressG(checked) ==
    LET g == jump_bottom(probe.num_lines, probe.height, checked) IN
    /\ probe.fn = "G"
    /\ ~probe.called
    /\ probe' = [probe EXCEPT !.called = TRUE, !.underflow = g.underflow,
                               !.panic = g.panic,
                               !.scroll = IF g.panic THEN 0
                                          ELSE ClampScroll(g.scroll, probe.num_lines,
                                                           probe.height)]
    /\ UNCHANGED <<procs, term, size, loop_impl>>

NextJumpBottom == \E checked \in BOOLEAN : PressG(checked)

SpecJumpBottom == InitJumpBottom /\ [][NextJumpBottom]_vars

(***************************************************************************)
(* The release of the left button, for every viewport height up to          *)
(* MaxHeight and every row and column the locator is examined with.         *)
(***************************************************************************)
InitClick ==
    /\ Idle
    /\ \E content \in LocatorContents, h \in 0..MaxHeight, scroll \in 0..MaxLocScroll :
         probe = [fn |-> "click", lines |-> Lines(strip_str(content)), height |-> h,
                  scroll |-> scroll, called |-> FALSE, at |-> NoCall,
                  outcome |-> "none", found |-> NoWord(NoCache)]

\* the handler's decisions for a release at (row, col): panic, ignored or jump
ClickCall(row, col, checked) ==
    LET area == click_area(probe.height, row, checked)
        found == word_at_position(probe.lines, probe.scroll, row, col, NoCache)
    IN
    /\ probe.fn = "click"
    /\ ~probe.called
    /\ probe' = [probe EXCEPT
                   !.called = TRUE,
                   !.at = [scroll |-> probe.scroll, row |-> row, col |-> col],
                   !.found = IF area = "in" THEN found ELSE NoWord(NoCache),
                   !.outcome = IF area = "panic" THEN "panic"
                               ELSE IF area = "out" THEN "ignored"
                               ELSE IF found.panic THEN "panic"
                               ELSE IF clicked(found).jump THEN "jump"
                               ELSE "ignored"]
    /\ UNCHANGED <<procs, term, size, loop_impl>>

NextClick ==
    \E row \in 0..MaxLocRow, col \in 0..MaxLocCol, checked \in BOOLEAN :
        ClickCall(row, col, checked)

SpecClick == InitClick /\ [][NextClick]_vars

(***************************************************************************)
(* The line count of a page: num_lines = lines.len() as u16, in App::new    *)
(* and after a resize, for pages of up to MaxLen lines and for pages around *)
(* the largest 16-bit number.  A page is given by the length of lines.      *)
(***************************************************************************)
LineLens == (0..MaxLen) \cup {U16 - 1, U16, U16 + 1}

InitLineCount ==
    /\ Idle
    /\ \E len \in LineLens :
         probe = [fn |-> "count", len |-> len, called |-> FALSE, num_lines |-> 0]

\* App::new: num_lines = lines.len() as u16
NewApp ==
    /\ probe.fn = "count"
    /\ ~probe.called
    /\ probe' = [probe EXCEPT !.called = TRUE, !.num_lines = AsU16(probe.len)]
    /\ UNCHANGED <<procs, term, size, loop_impl>>

\* a resize: the page is wrapped to len lines, num_lines = lines.len() as u16
ResizeCount(len) ==
    /\ probe.fn = "count"
    /\ probe.called
    /\ probe' = [probe EXCEPT !.len = len, !.num_lines = AsU16(len)]
    /\ UNCHANGED <<procs, term, size, loop_impl>>

NextLineCount ==
    \/ NewApp
    \/ \E len \in LineLens : ResizeCount(len)

SpecLineCount == InitLineCount /\ [][NextLineCount]_vars

(***************************************************************************)
(* Scrolling over a page of up to MaxLines lines in a viewport of up to     *)
(* MaxHeight rows: the offset after each frame, and the lines it draws.     *)
(***************************************************************************)
InitViewport ==
    /\ Idle
    /\ \E n \in 0..MaxLines, h \in 0..MaxHeight :
         probe = [fn |-> "view", num_lines |-> n, height |-> h, scroll |-> 0,
                  moved |-> FALSE]

\* Down, 'j' or the wheel, and the next frame
ViewDown ==
    /\ probe.fn = "view"
    /\ probe' = [probe EXCEPT !.moved = TRUE,
                               !.scroll = ClampScroll(probe.scroll + 1, probe.num_lines,
                                                      probe.height)]
    /\ UNCHANGED <<procs, term, size, loop_impl>>

\* Up, 'k' or the wheel, and the next frame
ViewUp ==
    /\ probe.fn = "view"
    /\ probe' = [probe EXCEPT !.moved = TRUE,
                               !.scroll = ClampScroll(SatSub(probe.scroll, 1),
                                                      probe.num_lines, probe.height)]
    /\ UNCHANGED <<procs, term, size, loop_impl>>

NextViewport == ViewDown \/ ViewUp

SpecViewport == InitViewport /\ [][NextViewport]_vars

(***************************************************************************)
(* Properties.                                                             *)
(***************************************************************************)

\* C1: after the clamp of a frame the scroll offset o of every pager satisfies
\* 0 <= o <= max(0, line_count - h + 2), h the height of the viewport.
C1_ScrollWithinBound ==
    \A p \in Procs :
        InLoop(procs[p]) =>
            /\ 0 <= procs[p].scroll
            /\ procs[p].scroll
                 <= Max(0, procs[p].num_lines - procs[p].height + BorderRows)

\* C2: when try_link_jump has returned in the parent, whatever the outcome, the
\* terminal is in raw mode and on the alternate screen.
C2_TerminalKeptOverJump ==
    \A p \in Procs :
        procs[p].jump # "none" => term.raw /\ term.alt

\* C3: try_link_jump returns Ok exactly when wait reported a child that exited
\* with status 0; for a signalled child, a non-zero status, a failed fork and a
\* failed wait it returns an error and the parent goes on in its loop.
C3_OkIffChildExitedZero ==
    \A p \in Procs :
        procs[p].jump # "none" =>
            /\ InLoop(procs[p])
            /\ procs[p].jump = "ok" <=> procs[p].reaped = "exited0"

\* a parent back in its loop after a jump whose child exited with a non-zero status
C3_FailedJumpSeen ==
    \E p \in Procs :
        /\ InLoop(procs[p])
        /\ procs[p].jump = "err"
        /\ procs[p].reaped = "exitedN"

\* C4: while the child of a link jump is alive its parent draws no frame and
\* handles no event: the parent is back in its loop only after the child has
\* terminated, also when wait failed.
C4_ParentResumesAfterChild ==
    \A p \in 1..(MaxProcs - 1) :
        Live(procs[p + 1]) => ~InLoop(procs[p])

\* C5: a forked child whose exec step fails ends with an abnormal status and
\* never returns into the event loop (it is replaced by man or it ends), and its
\* parent then sees a failed jump.
C5_ExecFailureEndsChild ==
    [][\A c \in Procs :
          /\ procs[c].pc = "forked" =>
                /\ procs'[c].pc \in {"forked", "man", "exited"}
                /\ procs'[c].pc = "exited" =>
                      procs'[c].wkind = "signaled" \/ procs'[c].wcode # 0
          /\ (/\ c < MaxProcs
              /\ procs[c].pc = "wait"
              /\ procs[c + 1].cause = "exec"
              /\ procs'[c].pc = "read") => procs'[c].jump = "err"]_vars

\* a child ended by the failure of its exec step while its parent waits
C5_ExecFailed ==
    \E c \in 2..MaxProcs :
        /\ procs[c].pc = "exited"
        /\ procs[c].cause = "exec"
        /\ procs[c].wkind = "exited"
        /\ procs[c - 1].pc = "wait"

\* C6: when a pager has handled a resize to c columns, MANWIDTH holds c - 2.
C6_ResizeSetsWidth ==
    [][\A p \in Procs :
          (/\ Reading(procs[p])
           /\ size' # size
           /\ procs'[p].pc = "read")
          => procs'[p].manwidth = FormatUnsigned(SatSub(size'.cols, WidthMargin))]_vars

\* C7: MANWIDTH holds a number when man is started (the columns minus 2, or 78
\* when the size cannot be read, or the number it already held), no process
\* changes a MANWIDTH that holds a number, and all processes of a jump chain
\* that are alive hold the same value.
C7_WidthSetOnceForTheChain ==
    /\ [](\A p \in Procs : procs[p].pc = "man" => ParseU16(procs[p].manwidth).ok)
    /\ [](\A p, q \in Procs :
             (Live(procs[p]) /\ Live(procs[q])) => procs[p].manwidth = procs[q].manwidth)
    /\ [][\A p \in Procs :
             /\ (procs[p].pc = "main" /\ procs'[p].pc = "man") =>
                   procs'[p].manwidth \in
                      IF ParseU16(procs[p].manwidth).ok THEN {procs[p].manwidth}
                      ELSE {FormatUnsigned(SatSub(size.cols, WidthMargin)),
                            FormatUnsigned(DefaultCols - WidthMargin)}
             /\ (Live(procs[p]) /\ Live(procs'[p]) /\ ParseU16(procs[p].manwidth).ok) =>
                   procs'[p].manwidth = procs[p].manwidth]_vars

\* the pager of a jump, in its loop, under a first process that was started
\* without a usable MANWIDTH on 12 columns and re-executed itself through man
C7_ChainFormatted ==
    /\ InLoop(procs[2])
    /\ procs[1].reexecs = 1
    /\ procs[1].manwidth = <<"1", "0">>
    /\ procs[2].manwidth = <<"1", "0">>

\* C8: when the first process, having entered interactive mode, has ended (by the
\* quit key, an error or a panic), the terminal is in its original state; a quit
\* exits with 0 and an error with a non-zero status.
C8_TerminalRestoredAtExit ==
    (procs[1].pc = "exited" /\ procs[1].entered) =>
        /\ term = OriginalTerm
        /\ procs[1].cause = "quit" => procs[1].code = 0
        /\ procs[1].cause = "error" => procs[1].code # 0

\* C9: a process started with --subsequent-run never re-executes itself and goes
\* on to interactive mode (or ends); a process started without it never enables
\* raw mode: it is replaced by man or it ends; no chain holds more than one
\* startup re-exec.
C9_MarkerDecidesStartup ==
    /\ [](\A p \in Procs :
             /\ ~procs[p].flag => ~procs[p].entered
             /\ procs[p].reexecs <= 1)
    /\ [][\A p \in Procs :
             (procs[p].pc = "main" /\ procs'[p] # procs[p]) =>
                IF procs[p].flag
                THEN /\ procs'[p].pc \in {"run", "exited"}
                     /\ procs'[p].reexecs = procs[p].reexecs
                ELSE procs'[p].pc \in {"man", "exited"}]_vars

\* a pager in its loop that was reached by the one startup re-exec
C9_InteractiveAfterReexec ==
    /\ InLoop(procs[1])
    /\ procs[1].flag
    /\ procs[1].entered
    /\ procs[1].reexecs = 1

\* C10: whenever a pager waits for the next event, the terminal captures the
\* mouse exactly when the pager's MouseMode is LinkClicking.
C10_CaptureMatchesMode ==
    \A p \in Procs :
        InLoop(procs[p]) => (term.capture <=> procs[p].mouse_mode = "LinkClicking")

\* C11: two toggles in a row return to the mode before them, and the second one
\* issues the capture instruction of that mode (enable for LinkClicking, disable
\* for TextSelection); a toggle whose instruction cannot be issued leaves the
\* mode as it was.
C11_ToggleTwiceRestores ==
    probe.fn = "toggle" =>
        \A i \in 1..Len(probe.log) :
            /\ ~probe.log[i].ok => probe.log[i].after = probe.log[i].before
            /\ (i < Len(probe.log) /\ probe.log[i].ok /\ probe.log[i + 1].ok) =>
                  /\ probe.log[i + 1].after = probe.log[i].before
                  /\ probe.log[i + 1].capture = (probe.log[i].before = "LinkClicking")

\* two toggles in a row from TextSelection, then one that fails
C11_ToggledTwice ==
    /\ probe.fn = "toggle"
    /\ Len(probe.log) = 3
    /\ probe.log[1].before = "TextSelection"
    /\ probe.log[1].ok /\ probe.log[2].ok /\ ~probe.log[3].ok
    /\ probe.mouse_mode = "TextSelection"
    /\ ~probe.capture

\* C12: a token is parsed as a reference exactly when it holds no NUL and no
\* '/', holds a '(' and the character after the first '(' exists and is an ASCII
\* digit; the name is then the text before the first '(' and the section that
\* one digit.  "mount(2)" and "mount(2" give {mount, 2}; "../etc/passwd(1)", a
\* token with a NUL and "plainword" are refused.
C12_ParserAcceptsExactly ==
    (probe.fn = "parse" /\ probe.called) =>
        LET t == probe.token
            opens == {i \in 1..Len(t) : t[i] = "("}
            first == CHOOSE i \in opens : \A j \in opens : i <= j
            accepted == /\ \A i \in 1..Len(t) : t[i] # "NUL" /\ t[i] # "/"
                        /\ opens # {}
                        /\ first < Len(t)
                        /\ t[first + 1] \in Digits
        IN /\ probe.info.ok <=> accepted
           /\ probe.info.ok =>
                 /\ probe.info.name = SubSeq(t, 1, first - 1)
                 /\ probe.info.section_number = <<t[first + 1]>>
           /\ t \in {Mount2, Mount2Open} =>
                 /\ probe.info.ok
                 /\ probe.info.name = <<"m", "o", "u", "n", "t">>
                 /\ probe.info.section_number = <<"2">>
           /\ t \in {PasswdPath, WithNul, PlainWord} => ~probe.info.ok

\* "mount(2" was parsed and accepted
C12_OpenReferenceParsed ==
    /\ probe.fn = "parse"
    /\ probe.token = Mount2Open
    /\ probe.info.ok
    /\ probe.info.name = <<"m", "o", "u", "n", "t">>

\* C13: for every reference the parser produced, as_args succeeds and returns
\* the section and the name, in that order, and exec_self passes them to man as
\* two separate arguments after the pager option.
C13_ArgsAreSectionThenName ==
    (probe.fn = "parse" /\ probe.info.ok) =>
        /\ probe.args.ok
        /\ probe.args.args = <<probe.info.section_number, probe.info.name>>
        /\ probe.exec.ok
        /\ Len(probe.exec.argv) = 5
        /\ probe.exec.argv[2] = <<"-P">>
        /\ probe.exec.argv[4] = probe.info.section_number
        /\ probe.exec.argv[5] = probe.info.name

\* the arguments of "m(2)": section 2, name m
C13_ArgsBuilt ==
    /\ probe.fn = "parse"
    /\ probe.token = <<"m", "(", "2">>
    /\ probe.args.ok
    /\ probe.args.args = <<<<"2">>, <<"m">>>>
    /\ probe.exec.argv = <<<<"man">>, <<"-P">>, SelfPager, <<"2">>, <<"m">>>>

\* C14: with the lines "foo bar(1)" and "baz", scroll 0 and row 1, a click on
\* each cluster of "bar(1)" returns the word "bar(1)", which parses to the
\* reference {bar, 1}.
C14_ClickAnywhereInReference ==
    (/\ probe.fn = "locate" /\ probe.called
     /\ probe.lines = <<FooBar, Baz>>
     /\ probe.at.scroll = 0 /\ probe.at.row = 1
     /\ probe.at.col \in 5..10) =>
        /\ probe.out.some
        /\ probe.out.word = <<"b", "a", "r", "(", "1", ")">>
        /\ try_from(probe.out.word) =
              [ok |-> TRUE, name |-> <<"b", "a", "r">>, section_number |-> <<"1">>]
        /\ probe.did.jump

\* C15: the locator returns no word, so that nothing is parsed and no
\* subprocess is started, when the cluster at the position is whitespace, when
\* the column is 0, when the column is past the last cluster of the line, or
\* when row + scroll - 1 is not the index of a line (row 0 at scroll 0
\* included); none of these cases ends in an index error.
C15_NoWordOutsideText ==
    (probe.fn = "locate" /\ probe.called) =>
        LET index == probe.at.row + probe.at.scroll - 1
            valid == 0 <= index /\ index < Len(probe.lines)
            line == probe.lines[index + 1]
            outside == \/ ~valid
                       \/ probe.at.col = 0
                       \/ probe.at.col > Len(line)
                       \/ line[probe.at.col] \in {" ", "\t"}
        IN outside =>
             /\ ~probe.out.some
             /\ ~probe.out.panic
             /\ ~probe.did.parsed
             /\ ~probe.did.jump

\* a click on the blank of "foo bar(1)" found no word
C15_BlankClicked ==
    /\ probe.fn = "locate" /\ probe.called
    /\ probe.lines = <<FooBar, Baz>>
    /\ probe.at = [scroll |-> 0, row |-> 1, col |-> 4]
    /\ ~probe.out.some
    /\ ~probe.did.parsed

\* C16: every call of the locator returns what a computation without any
\* cache returns for the same lines, scroll, row and column, whatever calls and
\* re-wraps came before it.
C16_CacheIndependent ==
    (probe.fn = "locate" /\ probe.called) =>
        LET fresh == word_at_position(probe.lines, probe.at.scroll, probe.at.row,
                                      probe.at.col, NoCache)
        IN /\ probe.out.some = fresh.some
           /\ probe.out.word = fresh.word
           /\ probe.out.panic = fresh.panic
           /\ ~probe.out.panic

\* a word found through cached offsets on a line of the re-wrapped page
C16_CachedAfterRewrap ==
    /\ probe.fn = "locate" /\ probe.called
    /\ probe.lines = <<<<"a">>, <<"é", "(", "1", ")">>, <<"x", "y", "z">>>>
    /\ probe.at = [scroll |-> 1, row |-> 1, col |-> 2]
    /\ probe.out.some
    /\ probe.out.word = <<"C3", "A9", "(", "1", ")">>
    /\ \E e \in probe.cache : e.key = <<"x", "y", "z">>
    /\ Cardinality(probe.cache) >= 3

\* C17: when a resize is handled outside the composition of a query, the lines
\* become the re-wrap of the stripped content at the new column count, the line
\* count is recomputed from them, and the frame drawn before any later event
\* clamps the scroll offset to the new bound max(0, line_count - height + 2).
C17_ResizeRewrapsAndClamps ==
    [][\A p \in Procs :
         (/\ size' # size
          /\ procs[p].pc = "read" /\ ~Composing(procs[p])
          /\ procs'[p] # procs[p] /\ procs'[p].pc = "read") =>
            /\ procs'[p].lines = wrap(strip_str(procs[p].content), size'.cols)
            /\ procs'[p].num_lines = Len(procs'[p].lines)
            /\ procs'[p].height = size'.rows
            /\ procs'[p].scroll <=
                  Max(0, procs'[p].num_lines - procs'[p].height + BorderRows)]_vars

C19_JumpBottomReachesMaximum ==
    (probe.fn = "G" /\ probe.called) =>
        /\ ~probe.underflow
        /\ ~probe.panic
        /\ probe.scroll = AsU16(SatSub(probe.num_lines, probe.height) + BorderRows)

\* C20: a release of the left button keeps the loop running whatever comes of
\* it, and a subprocess is started only when the row is within
\* [1, height - 3], the locator returned a word and the parser accepted it.
C20_ClickJumpsOnlyInsideContent ==
    (probe.fn = "click" /\ probe.called) =>
        /\ probe.outcome # "panic"
        /\ probe.outcome = "jump" =>
              /\ 1 <= probe.at.row
              /\ probe.at.row <= probe.height - InputRows
              /\ probe.found.some
              /\ try_from(probe.found.word).ok

\* C21: every link jump that returns to the loop is followed by a clear of the
\* screen before the next frame, whether the jump succeeded or failed; the
\* screen is cleared for an event if and only if a word was found and parsed
\* (a jump was attempted), and the mouse mode is applied again only after a
\* successful jump.
C21_ClearAfterEveryJump ==
    [][\A p \in Procs :
         LET pr == procs[p]
             npr == procs'[p]
             reference == \E row \in ClickRows, col \in ClickCols :
                             clicked(word_at_position(pr.lines, pr.scroll, row, col,
                                                      NoCache)).jump
         IN /\ (pr.pc = "wait" /\ npr.pc = "read") =>
                 /\ npr.cleared
                 /\ npr.jump \in {"ok", "err"}
            /\ (pr.pc = "read" /\ npr.pc = "wait") => reference
            /\ (pr.pc = "read" /\ npr.pc = "read" /\ npr # pr) =>
                 /\ npr.cleared <=> npr.jump = "err"
                 /\ npr.cleared => reference
            /\ (pr.pc \in {"read", "wait"} /\ npr.pc = "read" /\ npr # pr) =>
                 /\ npr.jump = "ok" => term'.capture = (npr.mouse_mode = "LinkClicking")
                 /\ npr.jump = "err" => term'.capture = term.capture]_vars

\* a parent back in its loop, the screen cleared, after a jump that failed while
\* the child had switched mouse capture off
C21_ClearedAfterFailedJump ==
    \E p \in Procs :
        /\ procs[p].pc = "read"
        /\ procs[p].cleared
        /\ procs[p].jump = "err"
        /\ procs[p].reaped = "exitedN"
        /\ procs[p].mouse_mode = "LinkClicking"
        /\ ~term.capture

\* C22: in every reachable state the line count equals the number of lines of
\* the page, for pages of any length, the count being the length cast to 16
\* bits (lines change only at a resize, the content and the title never).
C22_LineCountIsLength ==
    (probe.fn = "count" /\ probe.called) => probe.num_lines = probe.len

\* C23: when the locator returns a word for the cluster index c, the word is
\* the slice [start, end): start is the smallest index <= c with no whitespace,
\* '/', '(' or ')' among the clusters of [start, c); end is the smallest index
\* >= c whose cluster is whitespace or '/', or the end of the line; '(' and ')'
\* do not stop the walk to the right, and the bytes returned are those of the
\* clusters start..end.
C23_WordIsTheBoundedSlice ==
    (probe.fn = "locate" /\ probe.called /\ probe.out.some) =>
        LET line == probe.lines[probe.at.row + probe.at.scroll]
            c == probe.at.col - 1
            stops_left == {" ", "\t", "\n", "/", "(", ")"}
            stops_right == {" ", "\t", "\n", "/"}
            starts == {s \in 0..c : \A k \in s..(c - 1) : line[k + 1] \notin stops_left}
            start == CHOOSE s \in starts : \A t \in starts : s <= t
            ends == {e \in c..Len(line) : e = Len(line) \/ line[e + 1] \in stops_right}
            end == CHOOSE e \in ends : \A t \in ends : e <= t
        IN probe.out.word = Bytes(SubSeq(line, start + 1, end))

\* a click on the 'a' of "bar(1)": the word runs over the parentheses
C23_WordOverParentheses ==
    /\ probe.fn = "locate" /\ probe.called
    /\ probe.lines = <<FooBar, Baz>>
    /\ probe.at = [scroll |-> 0, row |-> 1, col |-> 6]
    /\ probe.out.some
    /\ probe.out.word = <<"b", "a", "r", "(", "1", ")">>

\* C25: whenever the locator returns a word, the word is not empty and spans
\* the clicked cluster (start <= clicked index < end), for every clicked
\* cluster that is not whitespace, '/', '(' and ')' included.
C25_WordSpansTheClick ==
    (probe.fn = "locate" /\ probe.called /\ probe.out.some) =>
        LET line == probe.lines[probe.at.row + probe.at.scroll]
            c == probe.at.col - 1
        IN /\ probe.out.word # <<>>
           /\ \E start \in 0..c, end \in (c + 1)..Len(line) :
                 probe.out.word = Bytes(SubSeq(line, start + 1, end))

\* C24: no input event other than the quit key ends the session: every key
\* (Enter while a query is typed and G on a short page included), every mouse
\* event (a click in a viewport of fewer than 3 rows included) and every
\* resize is handled without a panic, and the loop goes on.
C24_NoEventEndsTheSession ==
    [][\A p \in Procs :
         (procs[p].pc = "read" /\ procs'[p].pc = "exited") =>
             procs'[p].cause # "panic"]_vars

\* C26: every line of the page can be brought into the content pane by
\* scrolling: for every line count and every viewport with at least one
\* content row, each line is drawn at some offset the clamp allows, and the
\* last line is drawn at the largest offset.
C26_EveryLineCanBeShown ==
    (/\ probe.fn = "view" /\ probe.moved
     /\ content_rows(probe.height) >= 1
     /\ probe.scroll = SatSub(probe.num_lines, probe.height) + BorderRows) =>
        /\ \A i \in 0..(probe.num_lines - 1) :
              \E o \in 0..probe.scroll : i \in drawn(o, probe.height, probe.num_lines)
        /\ probe.num_lines > 0 =>
              (probe.num_lines - 1) \in drawn(probe.scroll, probe.height, probe.num_lines)

\* C27: no token that the locator returns and the parser accepts gives man an
\* argument it can take for something else than a page name: the name is not
\* empty and does not begin with '-', and the section is one ASCII digit.
C27_NameIsAPageName ==
    (probe.fn = "locate" /\ probe.called /\ probe.did.jump) =>
        LET info == try_from(probe.out.word)
            argv == exec_argv(info).argv
        IN /\ info.name # <<>>
           /\ Head(info.name) # "-"
           /\ Len(info.section_number) = 1
           /\ Head(info.section_number) \in Digits
           /\ argv[5] # <<>> /\ Head(argv[5]) # "-"

====
